---- MODULE Spec2Model ----
(***************************************************************************)
(* Model of kikuchipy/indexing/similarity_metrics.py: metric scopes, the   *)
(* SimilarityMetric / FlatSimilarityMetric wrappers, the zero-mean and     *)
(* normalization utilities, the zncc and ndp metric functions and the      *)
(* SIMILARITY_METRICS registry.                                            *)
(*                                                                         *)
(* Arrays are records [shape, data, lazy, dtype, base]: data is the        *)
(* row-major sequence of elements, lazy tells a dask array from a numpy    *)
(* array, base names the buffer a numpy array (or a view of it) lives in.  *)
(* Elements are exact reals n / (d * sqrt(t)) in canonical form, so that   *)
(* mean subtraction and division by an L2 norm are computed, not assumed.  *)
(***************************************************************************)
EXTENDS Integers, Sequences, FiniteSets, TLC

VARIABLES SIMILARITY_METRICS, experimental, simulated, writes, ret

vars == <<SIMILARITY_METRICS, experimental, simulated, writes, ret>>

\* ------------------------------------------------------------------ bounds
MaxDim == 2        \* every axis of a caller's array has a size in 1..MaxDim
MaxSeed == 0       \* pixel fills are numbered 0..MaxSeed
MaxWrites == 1     \* in-place updates of the caller's arrays that are followed
MaxNdim == 5       \* _is_compatible is asked about ranks 0..MaxNdim
MaxRank == 5       \* dimension expansion is given ranks 1..MaxRank

\* F(v) with v evaluated once, before F uses it
Let(v, F(_)) == CHOOSE y \in {F(x) : x \in {v}} : TRUE

\* ------------------------------------------------------- exact arithmetic
Abs(x) == IF x < 0 THEN -x ELSE x

RECURSIVE GCD(_, _)
GCD(a, b) == IF b = 0 THEN a ELSE GCD(b, a % b)

RECURSIVE SqPart(_, _, _)
\* the largest s with s*s dividing r, searched upwards from s
SqPart(r, s, best) ==
    IF s * s > r THEN best
    ELSE SqPart(r, s + 1, IF r % (s * s) = 0 THEN s ELSE best)

NaN == [n |-> 0, d |-> 0, t |-> 1]    \* 0/0 of the floating point division
Irr == [n |-> 0, d |-> 0, t |-> 0]    \* a sum of incommensurable radicals
Zero == [n |-> 0, d |-> 1, t |-> 1]
Num(k) == [n |-> k, d |-> 1, t |-> 1]

IsNum(x) == x.d > 0

\* n / (d * sqrt(t)) in canonical form: t squarefree, gcd(n, d) = 1
Canon(n, d, t) ==
    IF n = 0 THEN Zero
    ELSE LET s == SqPart(t, 1, 1)
             tt == t \div (s * s)
             dd == d * s
             g == GCD(Abs(n), dd)
         IN [n |-> n \div g, d |-> dd \div g, t |-> tt]

Bad(S) == IF \E x \in S : x = Irr THEN Irr ELSE NaN

Sub(a, b) ==
    IF ~IsNum(a) \/ ~IsNum(b) THEN Bad({a, b})
    ELSE IF b.n = 0 THEN a
    ELSE IF a.n = 0 THEN Canon(-b.n, b.d, b.t)
    ELSE IF a.t # b.t THEN Irr
    ELSE Canon(a.n * b.d - b.n * a.d, a.d * b.d, a.t)

Mul(a, b) ==
    IF ~IsNum(a) \/ ~IsNum(b) THEN Bad({a, b})
    ELSE Canon(a.n * b.n, a.d * b.d, a.t * b.t)

\* a / b; the divisor is an L2 norm, so it is never negative
Div(a, b) ==
    IF ~IsNum(a) \/ ~IsNum(b) THEN Bad({a, b})
    ELSE IF b.n = 0 THEN NaN
    ELSE Canon(a.n * b.d * b.t, a.d * b.n, a.t * b.t)

Add(a, b) ==
    IF ~IsNum(a) \/ ~IsNum(b) THEN Bad({a, b})
    ELSE IF a.n = 0 THEN b
    ELSE IF b.n = 0 THEN a
    ELSE IF a.t # b.t THEN Irr
    ELSE Canon(a.n * b.d + b.n * a.d, a.d * b.d, a.t)

RECURSIVE SumFrom(_, _, _)
SumFrom(s, i, acc) ==
    IF i > Len(s) THEN acc
    ELSE Let(Add(acc, s[i]), LAMBDA a : SumFrom(s, i + 1, a))

\* the sum of a sequence of elements
SumSeq(s) == SumFrom(s, 1, Zero)

\* x / k for a positive integer k
DivInt(x, k) == IF ~IsNum(x) THEN x ELSE Canon(x.n, x.d * k, x.t)

\* x ** 2, a rational
Square(x) == IF ~IsNum(x) THEN x ELSE Canon(x.n * x.n, x.d * x.d * x.t, 1)

\* x ** 0.5 of a non-negative rational p/q = p / sqrt(p*q)
Sqrt(x) == IF ~IsNum(x) THEN x ELSE Canon(x.n, 1, x.n * x.d)

\* ------------------------------------------------------------------ arrays
RECURSIVE Prod(_)
Prod(sh) == IF sh = <<>> THEN 1 ELSE Head(sh) * Prod(Tail(sh))

Ndim(a) == Len(a.shape)

\* a sequence of length n given as a function, evaluated to a tuple once
Tuple(s, n) == SubSeq(s, 1, n)

\* the 0-based index along axis i of the element at row-major position k
AxisIndex(sh, i, k) == ((k - 1) \div Prod(SubSeq(sh, i + 1, Len(sh)))) % sh[i]

RECURSIVE AxesOffset(_, _, _, _)
\* the part of the row-major offset of element k that the axes contribute
AxesOffset(sh, axes, k, i) ==
    IF i > Len(sh) THEN 0
    ELSE (IF i \in axes THEN AxisIndex(sh, i, k) * Prod(SubSeq(sh, i + 1, Len(sh))) ELSE 0)
         + AxesOffset(sh, axes, k, i + 1)

\* per element, the number of the group it is reduced in: two elements are
\* reduced together iff they differ at most along the reduced axes
GroupKeys(sh, axes) ==
    Tuple([k \in 1..Prod(sh) |-> (k - 1) - AxesOffset(sh, axes, k, 1)], Prod(sh))

RECURSIVE Group(_, _, _, _)
\* the elements with group number key, from position j on
Group(data, keys, key, j) ==
    IF j > Len(data) THEN <<>>
    ELSE IF keys[j] = key
         THEN <<data[j]>> \o Group(data, keys, key, j + 1)
         ELSE Group(data, keys, key, j + 1)

\* a.mean(axis=axes, keepdims=True), broadcast back over a
MeanKeepdims(a, axes) ==
    Let(GroupKeys(a.shape, axes), LAMBDA keys :
        Tuple([k \in 1..Len(a.data) |->
                 Let(Group(a.data, keys, keys[k], 1), LAMBDA g : DivInt(SumSeq(g), Len(g)))],
              Len(a.data)))

\* (a ** 2).sum(axis=axes, keepdims=True) ** 0.5, broadcast back over a
NormKeepdims(a, axes) ==
    Let(GroupKeys(a.shape, axes), LAMBDA keys :
        Let(Tuple([k \in 1..Len(a.data) |-> Square(a.data[k])], Len(a.data)), LAMBDA sq :
            Tuple([k \in 1..Len(a.data) |->
                     Let(SumSeq(Group(sq, keys, keys[k], 1)), LAMBDA ss : Sqrt(ss))],
                  Len(a.data))))

RECURSIVE Ones(_)
Ones(k) == IF k <= 0 THEN <<>> ELSE <<1>> \o Ones(k - 1)

\* a[(np.newaxis,) * abs(k)]: axes are added for a rank above the wanted one
NewAxesAbs(a, k) == [a EXCEPT !.shape = Ones(Abs(k)) \o a.shape]

\* a[(np.newaxis,) * k]: a view with k leading axes of size 1; an empty
\* index tuple (k <= 0) is a view of the whole array
NewAxes(a, k) == [a EXCEPT !.shape = Ones(k) \o a.shape]

\* a.squeeze(): a view without the axes of size 1
Squeeze(a) == [a EXCEPT !.shape = SelectSeq(a.shape, LAMBDA n : n # 1)]

IsFloat(dt) == dt \in {"float32", "float64"}

\* a.astype(dtype): a new array (numpy copies, dask adds a graph node)
Astype(a, dtype, name) == [a EXCEPT !.dtype = dtype, !.base = name]

\* a -= m and a /= m. numpy updates the buffer in place and refuses to cast a
\* float result into an integer array; a dask array is rebound to a new one.
InPlace(a, newdata) ==
    IF a.lazy
    THEN [err |-> "", arr |-> [a EXCEPT !.data = newdata, !.base = "graph",
                               !.dtype = IF IsFloat(a.dtype) THEN a.dtype ELSE "float64"]]
    ELSE IF ~IsFloat(a.dtype)
    THEN [err |-> "UFuncTypeError", arr |-> a]
    ELSE [err |-> "", arr |-> [a EXCEPT !.data = newdata]]

\* ------------------------------------------------------------ scope model
MANY_TO_MANY == "many_to_many"
ONE_TO_MANY == "one_to_many"
ONE_TO_ONE == "one_to_one"
MANY_TO_ONE == "many_to_one"
MetricScope == {MANY_TO_MANY, ONE_TO_MANY, ONE_TO_ONE, MANY_TO_ONE}

\* SimilarityMetric._SCOPE_TO_EXPT_SIM_NDIM
Nested_SCOPE_TO_EXPT_SIM_NDIM ==
    [sc \in MetricScope |->
        CASE sc = MANY_TO_MANY -> <<4, 3>>
          [] sc = ONE_TO_MANY -> <<2, 3>>
          [] sc = MANY_TO_ONE -> <<4, 2>>
          [] sc = ONE_TO_ONE -> <<2, 2>>]

\* FlatSimilarityMetric._SCOPE_TO_EXPT_SIM_NDIM
Flat_SCOPE_TO_EXPT_SIM_NDIM ==
    [sc \in MetricScope |->
        CASE sc = MANY_TO_MANY -> <<2, 2>>
          [] sc = ONE_TO_MANY -> <<1, 2>>
          [] sc = MANY_TO_ONE -> <<3, 1>>
          [] sc = ONE_TO_ONE -> <<1, 1>>]

SCOPE_TO_EXPT_SIM_NDIM(flat) ==
    IF flat THEN Flat_SCOPE_TO_EXPT_SIM_NDIM ELSE Nested_SCOPE_TO_EXPT_SIM_NDIM

\* SimilarityMetric._EXPT_SIM_NDIM_TO_SCOPE: dict.get(key, False)
Nested_EXPT_SIM_NDIM_TO_SCOPE(e, s) ==
    CASE <<e, s>> = <<4, 3>> -> MANY_TO_MANY
      [] <<e, s>> = <<2, 3>> -> ONE_TO_MANY
      [] <<e, s>> = <<4, 2>> -> MANY_TO_ONE
      [] <<e, s>> = <<2, 2>> -> ONE_TO_ONE
      [] OTHER -> "False"

\* FlatSimilarityMetric._EXPT_SIM_NDIM_TO_SCOPE: dict.get(key, False)
Flat_EXPT_SIM_NDIM_TO_SCOPE(e, s) ==
    CASE <<e, s>> = <<2, 2>> -> MANY_TO_MANY
      [] <<e, s>> = <<1, 2>> -> ONE_TO_MANY
      [] <<e, s>> = <<3, 1>> -> MANY_TO_ONE
      [] <<e, s>> = <<1, 1>> -> ONE_TO_ONE
      [] OTHER -> "False"

\* SimilarityMetric._SCOPE_TO_LOWER_SCOPES (inherited by the flat class)
SCOPE_TO_LOWER_SCOPES ==
    [sc \in MetricScope |->
        CASE sc = MANY_TO_MANY -> {MANY_TO_ONE, ONE_TO_MANY, ONE_TO_ONE}
          [] sc = ONE_TO_MANY -> {ONE_TO_MANY, ONE_TO_ONE}
          [] sc = ONE_TO_ONE -> {}
          [] sc = MANY_TO_ONE -> {MANY_TO_ONE, ONE_TO_ONE}]

\* make_similarity_metric: the instance's fields; the class is told by flat
make_similarity_metric(metric_func, greater_is_better, scope, flat, lower) ==
    [metric_func |-> metric_func,
     sign |-> IF greater_is_better THEN 1 ELSE -1,
     scope |-> scope,
     flat |-> flat,
     make_compatible_to_lower_scopes |-> lower,
     dtype_out |-> "float32"]

\* the first half of _is_compatible: the ranks as the class's table wants
\* them, and the scope the table gives for them (or False)
inferred_scope(self, expt_ndim, sim_ndim) ==
    IF self.flat
    THEN Flat_EXPT_SIM_NDIM_TO_SCOPE(expt_ndim \div 2, sim_ndim - 1)
    ELSE Nested_EXPT_SIM_NDIM_TO_SCOPE(expt_ndim, sim_ndim)

\* _is_compatible accepting the lower scopes whether or not promotion is on
is_compatible_always_lower(self, expt_ndim, sim_ndim) ==
    LET inferred == inferred_scope(self, expt_ndim, sim_ndim)
    IN IF inferred = "False" THEN FALSE
       ELSE IF inferred = self.scope THEN TRUE
       ELSE inferred \in SCOPE_TO_LOWER_SCOPES[self.scope]

\* SimilarityMetric._is_compatible
is_compatible(self, expt_ndim, sim_ndim) ==
    LET inferred == inferred_scope(self, expt_ndim, sim_ndim)
    IN IF inferred = "False" THEN FALSE
       ELSE IF inferred = self.scope THEN TRUE
       ELSE IF self.make_compatible_to_lower_scopes
            THEN inferred \in SCOPE_TO_LOWER_SCOPES[self.scope]
            ELSE FALSE

\* SimilarityMetric._expand_dims_to_match_scope
expand_dims_to_match_scope(self, expt, sim) ==
    LET nd == SCOPE_TO_EXPT_SIM_NDIM(self.flat)[self.scope]
    IN <<NewAxes(expt, nd[1] - Ndim(expt)), NewAxes(sim, nd[2] - Ndim(sim))>>

\* _expand_dims_to_many_to_many
expand_dims_to_many_to_many(expt, sim, flat) ==
    LET nd == SCOPE_TO_EXPT_SIM_NDIM(flat)[MANY_TO_MANY]
    IN <<NewAxes(expt, nd[1] - Ndim(expt)), NewAxes(sim, nd[2] - Ndim(sim))>>

\* -------------------------------------------------------------- utilities
Range(f) == {f[i] : i \in DOMAIN f}

\* the outcome of a utility: the error raised ("" if none) and the arrays its
\* local names expt and sim are bound to when it returns or raises
Pair(err, expt, sim) == [err |-> err, expt |-> expt, sim |-> sim]

\* arr with every element x replaced by Op(x, m[x's position])
Elementwise(Op(_, _), arr, m) ==
    Tuple([k \in 1..Len(m) |-> Op(arr.data[k], m[k])], Len(m))

\* expt -= expt.mean(...), then sim -= sim.mean(...): an error of the first
\* update leaves both arrays alone, an error of the second only sim
SubtractMeans(e0, s0, expt_mean_axis, sim_mean_axis) ==
    Let(InPlace(e0, Elementwise(Sub, e0, MeanKeepdims(e0, expt_mean_axis))), LAMBDA e :
        IF e.err # "" THEN Pair(e.err, e0, s0)
        ELSE Let(InPlace(s0, Elementwise(Sub, s0, MeanKeepdims(s0, sim_mean_axis))), LAMBDA s :
                 Pair(s.err, e.arr, s.arr)))

\* expt /= norm of expt, then sim /= norm of sim
DivideByNorms(e0, s0, expt_sum_axis, sim_sum_axis) ==
    Let(InPlace(e0, Elementwise(Div, e0, NormKeepdims(e0, expt_sum_axis))), LAMBDA e :
        IF e.err # "" THEN Pair(e.err, e0, s0)
        ELSE Let(InPlace(s0, Elementwise(Div, s0, NormKeepdims(s0, sim_sum_axis))), LAMBDA s :
                 Pair(s.err, e.arr, s.arr)))

\* the return of _zero_mean and _normalize: squeezed or not
Squeezed(r, squeeze) ==
    IF r.err = "" /\ squeeze THEN Pair("", Squeeze(r.expt), Squeeze(r.sim)) ELSE r

\* _zero_mean squeezing whatever the inputs' shapes were
zero_mean_always_squeeze(expt, sim, flat) ==
    Let(expand_dims_to_many_to_many(expt, sim, flat), LAMBDA ex :
        Let(SubtractMeans(ex[1], ex[2], IF flat THEN {2} ELSE {3, 4}, IF flat THEN {2} ELSE {2, 3}),
            LAMBDA r : Squeezed(r, TRUE)))

\* _zero_mean
zero_mean(expt, sim, flat) ==
    Let(expand_dims_to_many_to_many(expt, sim, flat), LAMBDA ex :
        Let(SubtractMeans(ex[1], ex[2], IF flat THEN {2} ELSE {3, 4}, IF flat THEN {2} ELSE {2, 3}),
            LAMBDA r : Squeezed(r, 1 \notin Range(expt.shape \o sim.shape))))

\* _normalize
normalize(expt, sim, flat) ==
    Let(expand_dims_to_many_to_many(expt, sim, flat), LAMBDA ex :
        Let(DivideByNorms(ex[1], ex[2], IF flat THEN {2} ELSE {3, 4}, IF flat THEN {2} ELSE {2, 3}),
            LAMBDA r : Squeezed(r, 1 \notin Range(expt.shape \o sim.shape))))

\* --------------------------------------------------------- metric functions
NoArray == [shape |-> <<>>, data |-> <<>>, lazy |-> FALSE, dtype |-> "", base |-> ""]

\* the outcome of a metric function or of a metric call: the error raised,
\* the array returned, the arrays the local names are bound to at the end,
\* and how many times .compute() was called
Outcome(err, out, expt, sim, computes) ==
    [err |-> err, out |-> out, expt |-> expt, sim |-> sim, computes |-> computes]

\* the inner products of every experimental pattern with every simulated
\* pattern, patterns being runs of sig elements: experimental-major order
Contract(expt, sim, sig) ==
    LET P == Len(expt.data) \div sig
        M == Len(sim.data) \div sig
    IN Tuple([k \in 1..(P * M) |->
                LET p == (k - 1) \div M
                    m == (k - 1) % M
                IN SumSeq(Tuple([q \in 1..sig |->
                             Mul(expt.data[p * sig + q], sim.data[m * sig + q])], sig))], P * M)

ResultDtype(a, b) == IF a.dtype = "float32" /\ b.dtype = "float32" THEN "float32" ELSE "float64"

\* da.einsum("ijkl,mkl->ijm", experimental, simulated, optimize=True):
\* a dask array, or ValueError when the operands do not fit the subscripts
einsum_ijkl_mkl(expt, sim) ==
    IF Ndim(expt) # 4 \/ Ndim(sim) # 3 THEN [err |-> "ValueError", arr |-> NoArray]
    ELSE IF expt.shape[3] # sim.shape[2] \/ expt.shape[4] # sim.shape[3]
    THEN [err |-> "ValueError", arr |-> NoArray]
    ELSE [err |-> "",
          arr |-> [shape |-> <<expt.shape[1], expt.shape[2], sim.shape[1]>>,
                   data |-> Contract(expt, sim, expt.shape[3] * expt.shape[4]),
                   lazy |-> TRUE, dtype |-> ResultDtype(expt, sim), base |-> "graph"]]

\* compute() as soon as one of the two is a numpy array
MaterializeEither(r, expt, sim) ==
    IF r.err # "" THEN Outcome(r.err, NoArray, expt, sim, 0)
    ELSE IF ~expt.lazy \/ ~sim.lazy
    THEN Outcome("", [r.arr EXCEPT !.lazy = FALSE, !.base = "result"], expt, sim, 1)
    ELSE Outcome("", r.arr, expt, sim, 0)

\* the tail of _zncc_einsum and _ndp_einsum: compute() iff both are numpy
Materialize(r, expt, sim) ==
    IF r.err # "" THEN Outcome(r.err, NoArray, expt, sim, 0)
    ELSE IF ~expt.lazy /\ ~sim.lazy
    THEN Outcome("", [r.arr EXCEPT !.lazy = FALSE, !.base = "result"], expt, sim, 1)
    ELSE Outcome("", r.arr, expt, sim, 0)

\* _zncc_einsum
zncc_einsum(expt, sim) ==
    Let(zero_mean(expt, sim, FALSE), LAMBDA z :
        IF z.err # "" THEN Outcome(z.err, NoArray, z.expt, z.sim, 0)
        ELSE Let(normalize(z.expt, z.sim, FALSE), LAMBDA n :
                 IF n.err # "" THEN Outcome(n.err, NoArray, n.expt, n.sim, 0)
                 ELSE Let(einsum_ijkl_mkl(n.expt, n.sim), LAMBDA zncc :
                          Materialize(zncc, n.expt, n.sim))))

\* _ndp_einsum
ndp_einsum(expt, sim) ==
    Let(normalize(expt, sim, FALSE), LAMBDA n :
        IF n.err # "" THEN Outcome(n.err, NoArray, n.expt, n.sim, 0)
        ELSE Let(einsum_ijkl_mkl(n.expt, n.sim), LAMBDA ndp :
                 Materialize(ndp, n.expt, n.sim)))

\* A caller's metric_func written to the shape table of make_similarity_metric
\* for one scope and flatness: it takes exactly the ranks of its row, returns
\* the shape of its row (filled with the patterns' inner products) and leaves
\* its arguments alone
TableRanks(scope, flat) ==
    IF ~flat THEN Nested_SCOPE_TO_EXPT_SIM_NDIM[scope]
    ELSE CASE scope = MANY_TO_MANY -> <<2, 2>>
           [] scope = ONE_TO_MANY -> <<1, 2>>
           [] scope = MANY_TO_ONE -> <<2, 1>>
           [] scope = ONE_TO_ONE -> <<1, 1>>

TableReturns(scope, flat, expt, sim) ==
    CASE scope = MANY_TO_MANY /\ ~flat -> <<expt.shape[1], expt.shape[2], sim.shape[1]>>
      [] scope = MANY_TO_MANY /\ flat -> <<expt.shape[1], sim.shape[1]>>
      [] scope = ONE_TO_MANY -> <<sim.shape[1]>>
      [] scope = MANY_TO_ONE /\ ~flat -> <<expt.shape[1], expt.shape[2]>>
      [] scope = MANY_TO_ONE /\ flat -> <<expt.shape[1]>>
      [] scope = ONE_TO_ONE -> <<1>>

SigShape(a, flat) ==
    IF flat THEN SubSeq(a.shape, Len(a.shape), Len(a.shape))
    ELSE SubSeq(a.shape, Len(a.shape) - 1, Len(a.shape))

table_func(scope, flat, expt, sim) ==
    IF <<Ndim(expt), Ndim(sim)>> # TableRanks(scope, flat) \/ SigShape(expt, flat) # SigShape(sim, flat)
    THEN Outcome("ValueError", NoArray, expt, sim, 0)
    ELSE Outcome("", [shape |-> TableReturns(scope, flat, expt, sim),
                      data |-> Contract(expt, sim, Prod(SigShape(expt, flat))),
                      lazy |-> expt.lazy \/ sim.lazy,
                      dtype |-> ResultDtype(expt, sim),
                      base |-> IF expt.lazy \/ sim.lazy THEN "graph" ELSE "result"],
                 expt, sim, 0)

ZNCC == [name |-> "_zncc_einsum", scope |-> MANY_TO_MANY, flat |-> FALSE]
NDP == [name |-> "_ndp_einsum", scope |-> MANY_TO_MANY, flat |-> FALSE]
TableFunc(scope, flat) == [name |-> "table", scope |-> scope, flat |-> flat]

\* self._metric_func(experimental, simulated)
metric_func(f, expt, sim) ==
    CASE f.name = "_zncc_einsum" -> zncc_einsum(expt, sim)
      [] f.name = "_ndp_einsum" -> ndp_einsum(expt, sim)
      [] OTHER -> table_func(f.scope, f.flat, expt, sim)

\* ------------------------------------------------------ the metric wrapper
\* _get_nav_shape: a dict keyed by the ranks 2, 3 and 4
get_nav_shape(expt) ==
    CASE Ndim(expt) = 2 -> <<>>
      [] Ndim(expt) = 3 -> <<expt.shape[1]>>
      [] Ndim(expt) = 4 -> <<expt.shape[1], expt.shape[2]>>

\* _get_sig_shape
get_sig_shape(expt) == SubSeq(expt.shape, Len(expt.shape) - 1, Len(expt.shape))

\* FlatSimilarityMetric._measure. np.prod(()) is the float 1.0, which
\* reshape refuses as a size; reshape((-1, n)) needs n to divide the size.
flat_measure(self, expt, sim) ==
    IF Ndim(expt) \notin {2, 3, 4} THEN Outcome("KeyError", NoArray, expt, sim, 0)
    ELSE LET nav_shape == get_nav_shape(expt)
             sig_flat_size == Prod(get_sig_shape(expt))
         IN IF nav_shape = <<>> THEN Outcome("TypeError", NoArray, expt, sim, 0)
            ELSE Let([expt EXCEPT !.shape = <<Prod(nav_shape), sig_flat_size>>], LAMBDA e :
                     IF Len(sim.data) % sig_flat_size # 0
                     THEN Outcome("ValueError", NoArray, e, sim, 0)
                     ELSE Let([sim EXCEPT !.shape = <<Len(sim.data) \div sig_flat_size, sig_flat_size>>],
                              LAMBDA s : metric_func(self.metric_func, e, s)))

\* SimilarityMetric._measure and its override
measure(self, expt, sim) ==
    IF self.flat THEN flat_measure(self, expt, sim)
    ELSE metric_func(self.metric_func, expt, sim)

\* astype(dtype, copy=False): no copy of an array that has the dtype already
CastNoCopy(a, dtype, name) ==
    IF a.dtype = dtype THEN a ELSE Astype(a, dtype, IF a.lazy THEN "graph" ELSE name)

\* the two astype calls of __call__
Cast(a, dtype, name) == Astype(a, dtype, IF a.lazy THEN "graph" ELSE name)

\* the first lines of __call__: both arrays cast and, with promotion, expanded
Prepared(self, expt, sim) ==
    Let(<<Cast(expt, self.dtype_out, "cast_experimental"),
          Cast(sim, self.dtype_out, "cast_simulated")>>, LAMBDA c :
        IF self.make_compatible_to_lower_scopes
        THEN expand_dims_to_match_scope(self, c[1], c[2])
        ELSE c)

\* the last line of __call__: the result of _measure, squeezed
SqueezedResult(m) == IF m.err # "" THEN m ELSE [m EXCEPT !.out = Squeeze(m.out)]

\* __call__ refusing the inputs that _is_compatible rejects
call_checked(self, expt, sim) ==
    Let(Prepared(self, expt, sim), LAMBDA ex :
        IF ~is_compatible(self, Ndim(expt), Ndim(sim))
        THEN Outcome("IncompatibleShapeError", NoArray, ex[1], ex[2], 0)
        ELSE Let(measure(self, ex[1], ex[2]), LAMBDA m : SqueezedResult(m)))

\* __call__ returning what _measure returns, without the squeeze
call_unsqueezed(self, expt, sim) ==
    Let(Prepared(self, expt, sim), LAMBDA ex : Let(measure(self, ex[1], ex[2]), LAMBDA m : m))

\* SimilarityMetric.__call__
call(self, expt, sim) ==
    Let(Prepared(self, expt, sim), LAMBDA ex :
        Let(measure(self, ex[1], ex[2]), LAMBDA m : SqueezedResult(m)))

\* the registry with ndp registered without promotion
RegistryNdpUnpromoted ==
    [name \in {"zncc", "ndp"} |->
        IF name = "zncc"
        THEN make_similarity_metric(ZNCC, TRUE, MANY_TO_MANY, FALSE, TRUE)
        ELSE make_similarity_metric(NDP, TRUE, MANY_TO_MANY, FALSE, FALSE)]

\* SIMILARITY_METRICS as the module builds it
Registry ==
    [name \in {"zncc", "ndp"} |->
        IF name = "zncc"
        THEN make_similarity_metric(ZNCC, TRUE, MANY_TO_MANY, FALSE, TRUE)
        ELSE make_similarity_metric(NDP, TRUE, MANY_TO_MANY, FALSE, TRUE)]

\* ------------------------------------------------------------------- state
NoFunc == [name |-> "", scope |-> "", flat |-> FALSE]
NoMetric ==
    [metric_func |-> NoFunc, sign |-> 0, scope |-> "", flat |-> FALSE,
     make_compatible_to_lower_scopes |-> FALSE, dtype_out |-> ""]

\* what the last operation was given and what it gave back
Ret(op, metric, flat, key, nd, err, outs, flag, computes) ==
    [op |-> op, metric |-> metric, flat |-> flat, key |-> key, ndims |-> nd,
     err |-> err, outs |-> outs, flag |-> flag, computes |-> computes,
     pre_e |-> experimental, pre_s |-> simulated]

\* the caller's array after an operation whose local name ended up bound to
\* final: a view over the caller's buffer shows the buffer's new contents
WriteBack(orig, final) ==
    IF ~orig.lazy /\ ~final.lazy /\ final.base = orig.base
    THEN [orig EXCEPT !.data = final.data]
    ELSE orig

Dims == 1..MaxDim

RECURSIVE Shapes(_)
\* the shapes of rank n with every size in Dims
Shapes(n) == IF n = 0 THEN {<<>>} ELSE {<<d>> \o sh : d \in Dims, sh \in Shapes(n - 1)}

Pixel(seed, i) == Num((((i + seed) * (i + seed + 1)) \div 2) % 4)

NewArray(shape, seed, lazy, dtype, name) ==
    [shape |-> shape, data |-> Tuple([i \in 1..Prod(shape) |-> Pixel(seed, i)], Prod(shape)),
     lazy |-> lazy, dtype |-> dtype, base |-> name]

Dtypes == {"uint8", "float32"}

NoRet ==
    [op |-> "", metric |-> NoMetric, flat |-> FALSE, key |-> "", ndims |-> <<0, 0>>,
     err |-> "", outs |-> <<>>, flag |-> FALSE, computes |-> 0,
     pre_e |-> NoArray, pre_s |-> NoArray]

\* patterns of one signal shape: up to two navigation axes, up to one
\* simulation axis; numpy or dask, gray levels or floats
Init ==
    /\ SIMILARITY_METRICS = Registry
    /\ \E sig \in Shapes(2), nav \in Shapes(0) \cup Shapes(1) \cup Shapes(2),
          n \in Shapes(0) \cup Shapes(1), seed \in 0..MaxSeed,
          el \in BOOLEAN, sl \in BOOLEAN, dtype \in Dtypes :
          /\ experimental = NewArray(nav \o sig, seed, el, dtype, "experimental")
          /\ simulated = NewArray(n \o sig, seed + 1, sl, dtype, "simulated")
    /\ writes = 0
    /\ ret = NoRet

\* 1 if the operation with outcome r wrote into a buffer of the caller
Written(r) ==
    IF WriteBack(experimental, r.expt) # experimental \/ WriteBack(simulated, r.sim) # simulated
    THEN 1 ELSE 0

\* the caller's frame after an operation with outcome r
Frame(r) ==
    /\ experimental' = WriteBack(experimental, r.expt)
    /\ simulated' = WriteBack(simulated, r.sim)
    /\ writes' = writes + Written(r)
    /\ UNCHANGED SIMILARITY_METRICS

Outs(r) == IF r.err # "" THEN <<>> ELSE <<r.out>>

Ranks == <<Ndim(experimental), Ndim(simulated)>>

\* SIMILARITY_METRICS[name](experimental, simulated)
CallRegistered(name) ==
    /\ ret.op = ""
    /\ name \in DOMAIN SIMILARITY_METRICS
    /\ \E m \in {SIMILARITY_METRICS[name]} :
          \E r \in {call(m, experimental, simulated)} :
             /\ ret' = Ret("call", m, m.flat, name, Ranks, r.err, Outs(r), FALSE, r.computes)
             /\ Frame(r)

\* the metric functions a caller wraps: zncc, or one written to the table
MetricFuncs(scope, flat) ==
    IF flat THEN {TableFunc(scope, flat)} ELSE {ZNCC, TableFunc(scope, flat)}

\* make_similarity_metric(f, ...)(experimental, simulated)
CallMade(f, scope, flat, lower) ==
    /\ ret.op = ""
    /\ \E m \in {make_similarity_metric(f, TRUE, scope, flat, lower)} :
          \E r \in {call(m, experimental, simulated)} :
             /\ ret' = Ret("call", m, flat, "", Ranks, r.err, Outs(r), FALSE, r.computes)
             /\ Frame(r)

\* _zero_mean(experimental, simulated, flat)
ZeroMean(flat) ==
    /\ ret.op = ""
    /\ writes < MaxWrites
    /\ \E r \in {zero_mean(experimental, simulated, flat)} :
          /\ ret' = Ret("zero_mean", NoMetric, flat, "", Ranks, r.err,
                        IF r.err # "" THEN <<>> ELSE <<r.expt, r.sim>>, FALSE, 0)
          /\ Frame(r)

\* _normalize(experimental, simulated, flat)
Normalize(flat) ==
    /\ ret.op = ""
    /\ writes < MaxWrites
    /\ \E r \in {normalize(experimental, simulated, flat)} :
          /\ ret' = Ret("normalize", NoMetric, flat, "", Ranks, r.err,
                        IF r.err # "" THEN <<>> ELSE <<r.expt, r.sim>>, FALSE, 0)
          /\ Frame(r)

\* _zncc_einsum(experimental, simulated), _ndp_einsum(experimental, simulated)
MetricFunc(f) ==
    /\ ret.op = ""
    /\ writes < MaxWrites
    /\ \E r \in {metric_func(f, experimental, simulated)} :
          /\ ret' = Ret("metric_func", [NoMetric EXCEPT !.metric_func = f], FALSE, "",
                        Ranks, r.err, Outs(r), FALSE, r.computes)
          /\ Frame(r)

\* metric._expand_dims_to_match_scope(experimental, simulated)
ExpandToScope(scope, flat) ==
    /\ ret.op = ""
    /\ \E m \in {make_similarity_metric(TableFunc(scope, flat), TRUE, scope, flat, TRUE)} :
          \E ex \in {expand_dims_to_match_scope(m, experimental, simulated)} :
             ret' = Ret("expand_dims_to_match_scope", m, flat, "", Ranks, "", ex, FALSE, 0)
    /\ UNCHANGED <<SIMILARITY_METRICS, experimental, simulated, writes>>

\* _expand_dims_to_many_to_many(experimental, simulated, flat)
ExpandToManyToMany(flat) ==
    /\ ret.op = ""
    /\ ret' = Ret("expand_dims_to_many_to_many", NoMetric, flat, "", Ranks, "",
                  expand_dims_to_many_to_many(experimental, simulated, flat), FALSE, 0)
    /\ UNCHANGED <<SIMILARITY_METRICS, experimental, simulated, writes>>

\* metric._is_compatible(expt_ndim, sim_ndim)
IsCompatible(f, gib, scope, flat, lower, expt_ndim, sim_ndim) ==
    /\ ret.op = ""
    /\ \E m \in {make_similarity_metric(f, gib, scope, flat, lower)} :
          ret' = Ret("is_compatible", m, flat, "", <<expt_ndim, sim_ndim>>, "", <<>>,
                     is_compatible(m, expt_ndim, sim_ndim), 0)
    /\ UNCHANGED <<SIMILARITY_METRICS, experimental, simulated, writes>>

LookupNames == {"zncc", "ndp", "foo"}

\* SIMILARITY_METRICS[name]: KeyError for a name that is no key
Lookup(name) ==
    /\ ret.op = ""
    /\ ret' = IF name \in DOMAIN SIMILARITY_METRICS
              THEN Ret("lookup", SIMILARITY_METRICS[name], FALSE, name, <<0, 0>>, "", <<>>, FALSE, 0)
              ELSE Ret("lookup", NoMetric, FALSE, name, <<0, 0>>, "KeyError", <<>>, FALSE, 0)
    /\ UNCHANGED <<SIMILARITY_METRICS, experimental, simulated, writes>>

\* the caller lets go of what the last operation returned or raised
Discard ==
    /\ ret.op # ""
    /\ ret' = NoRet
    /\ UNCHANGED <<SIMILARITY_METRICS, experimental, simulated, writes>>

\* metrics are looked up or made, and called
Next ==
    \/ \E name \in {"zncc", "ndp"} : CallRegistered(name)
    \/ \E scope \in MetricScope, flat \in BOOLEAN, lower \in BOOLEAN :
          \E f \in MetricFuncs(scope, flat) : CallMade(f, scope, flat, lower)
    \/ \E name \in LookupNames : Lookup(name)
    \/ Discard

Spec == Init /\ [][Next]_vars

\* the utilities and the metric functions are called on their own
NextUtil ==
    \/ \E flat \in BOOLEAN : ZeroMean(flat)
    \/ \E flat \in BOOLEAN : Normalize(flat)
    \/ \E f \in {ZNCC, NDP} : MetricFunc(f)
    \/ Discard

SpecUtil == Init /\ [][NextUtil]_vars

\* arrays of every rank in 1..MaxRank (one less for simulated); the sizes
\* along the axes cycle through Dims so that the order of the axes shows
RankShape(r, d) == [i \in 1..r |-> ((d + i) % MaxDim) + 1]

InitShape ==
    /\ SIMILARITY_METRICS = Registry
    /\ \E er \in 1..MaxRank, sr \in 1..(MaxRank - 1), ed \in Dims, sd \in Dims, el \in BOOLEAN :
          /\ experimental = NewArray(RankShape(er, ed), 0, el, "float32", "experimental")
          /\ simulated = NewArray(RankShape(sr, sd), 1, el, "float32", "simulated")
    /\ writes = 0
    /\ ret = NoRet

NextShape ==
    \/ \E scope \in MetricScope, flat \in BOOLEAN : ExpandToScope(scope, flat)
    \/ \E flat \in BOOLEAN : ExpandToManyToMany(flat)
    \/ Discard

SpecShape == InitShape /\ [][NextShape]_vars

\* one pair of patterns; metrics of every configuration are asked about
\* every pair of ranks in 0..MaxNdim
InitCompat ==
    /\ SIMILARITY_METRICS = Registry
    /\ experimental = NewArray(<<1, 1>>, 0, FALSE, "float32", "experimental")
    /\ simulated = NewArray(<<1, 1>>, 1, FALSE, "float32", "simulated")
    /\ writes = 0
    /\ ret = NoRet

NextCompat ==
    \/ \E gib \in BOOLEAN, scope \in MetricScope, flat \in BOOLEAN, lower \in BOOLEAN :
          \E e \in 0..MaxNdim, s \in 0..MaxNdim :
             IsCompatible(TableFunc(scope, flat), gib, scope, flat, lower, e, s)
    \/ Discard

SpecCompat == InitCompat /\ [][NextCompat]_vars

\* ------------------------------------------------------------------ claims
IsCall == ret.op = "call"

\* the condition of C1: the ranks are no entry of the metric's rank-pair
\* table, or their scope is neither the declared one nor (with promotion)
\* one of its lower scopes
Rejected ==
    LET inferred == inferred_scope(ret.metric, ret.ndims[1], ret.ndims[2])
    IN \/ inferred = "False"
       \/ /\ inferred # ret.metric.scope
          /\ ~(/\ ret.metric.make_compatible_to_lower_scopes
               /\ inferred \in SCOPE_TO_LOWER_SCOPES[ret.metric.scope])

\* C1 as claimed: a call with rejected ranks signals IncompatibleShapeError
\* and returns no result
C1_AsClaimed == IsCall /\ Rejected => ret.err = "IncompatibleShapeError" /\ ret.outs = <<>>

\* C1 amended: __call__ makes no compatibility check. A call with rejected
\* ranks never signals IncompatibleShapeError: it returns one squeezed result
\* whenever the flattening and metric_func accept the cast (and, with
\* promotion, expanded) arrays, and otherwise raises their KeyError,
\* TypeError or ValueError without a result.
C1_NoCheckInCall ==
    IsCall /\ Rejected =>
        \/ ret.err = "" /\ Len(ret.outs) = 1 /\ 1 \notin Range(ret.outs[1].shape)
        \/ ret.err \in {"KeyError", "TypeError", "ValueError"} /\ ret.outs = <<>>

\* a registered metric called with a 1-D navigation shape, ranks (3, 3),
\* which no table has, returns a result
C1_Witness ==
    /\ IsCall /\ Rejected /\ ret.key = "zncc"
    /\ ret.ndims = <<3, 3>> /\ ret.err = "" /\ Len(ret.outs) = 1

\* the shape the table of make_similarity_metric lists for nested inputs
\* e and s of the scope
C2_Listed(scope, e, s) ==
    CASE scope = MANY_TO_MANY -> <<e.shape[1], e.shape[2], s.shape[1]>>
      [] scope = ONE_TO_MANY -> <<s.shape[1]>>
      [] scope = MANY_TO_ONE -> <<e.shape[1], e.shape[2]>>
      [] scope = ONE_TO_ONE -> <<1>>

\* the case of C2: a nested metric around a function written to the table
\* for the metric's scope, called with the ranks of that scope
C2_Case ==
    /\ IsCall /\ ~ret.metric.flat
    /\ ret.metric.metric_func = TableFunc(ret.metric.scope, FALSE)
    /\ ret.ndims = Nested_SCOPE_TO_EXPT_SIM_NDIM[ret.metric.scope]

\* C2 as claimed: the call returns the listed shape for all sizes >= 1
C2_AsClaimed ==
    C2_Case => /\ ret.err = ""
               /\ ret.outs[1].shape = C2_Listed(ret.metric.scope, ret.pre_e, ret.pre_s)

\* C2 amended: the call returns the listed shape without its axes of size 1:
\* the listed shape itself when every listed size is at least 2, and the
\* 0-d shape () for ONE_TO_ONE
C2_SqueezedShape ==
    C2_Case =>
        LET listed == C2_Listed(ret.metric.scope, ret.pre_e, ret.pre_s)
        IN /\ ret.err = ""
           /\ ret.outs[1].shape = SelectSeq(listed, LAMBDA n : n > 1)
           /\ (\A i \in 1..Len(listed) : listed[i] >= 2) => ret.outs[1].shape = listed
           /\ ret.metric.scope = ONE_TO_ONE => ret.outs[1].shape = <<>>

\* a MANY_TO_MANY call with ny = 1 whose result has lost that axis
C2_Witness ==
    /\ C2_Case /\ ret.metric.scope = MANY_TO_MANY
    /\ ret.pre_e.shape[1] = 1 /\ ret.pre_e.shape[2] = 2 /\ ret.pre_s.shape[1] = 2
    /\ ret.outs[1].shape = <<2, 2>>

\* C3: for a nested metric _is_compatible is True exactly when the rank pair
\* is (4,3), (2,3), (4,2) or (2,2) and its scope is the declared one or, with
\* promotion, one of the declared scope's lower scopes
C3_Scope(e, s) ==
    CASE e = 4 /\ s = 3 -> MANY_TO_MANY
      [] e = 2 /\ s = 3 -> ONE_TO_MANY
      [] e = 4 /\ s = 2 -> MANY_TO_ONE
      [] e = 2 /\ s = 2 -> ONE_TO_ONE
      [] OTHER -> "none"

C3_Lower(scope) ==
    CASE scope = MANY_TO_MANY -> {MANY_TO_ONE, ONE_TO_MANY, ONE_TO_ONE}
      [] scope = ONE_TO_MANY -> {ONE_TO_MANY, ONE_TO_ONE}
      [] scope = MANY_TO_ONE -> {MANY_TO_ONE, ONE_TO_ONE}
      [] scope = ONE_TO_ONE -> {}

C3_NestedCompatible ==
    ret.op = "is_compatible" /\ ~ret.metric.flat =>
        LET sc == C3_Scope(ret.ndims[1], ret.ndims[2])
        IN ret.flag <=> /\ sc # "none"
                        /\ \/ sc = ret.metric.scope
                           \/ /\ ret.metric.make_compatible_to_lower_scopes
                              /\ sc \in C3_Lower(ret.metric.scope)

\* a MANY_TO_ONE metric without promotion refuses a single pair of patterns
C3_Witness ==
    /\ ret.op = "is_compatible" /\ ~ret.metric.flat
    /\ ret.metric.scope = MANY_TO_ONE /\ ~ret.metric.make_compatible_to_lower_scopes
    /\ ret.ndims = <<2, 2>> /\ ~ret.flag

\* C4: dimension expansion returns each array with max(0, required rank -
\* rank) axes of size 1 in front of its own axes, which keep their sizes
\* and order, and with its elements as they were
C4_Expanded(out, in, required) ==
    LET k == IF required > Ndim(in) THEN required - Ndim(in) ELSE 0
    IN /\ Len(out.shape) = k + Ndim(in)
       /\ \A i \in 1..k : out.shape[i] = 1
       /\ \A i \in 1..Ndim(in) : out.shape[k + i] = in.shape[i]
       /\ Ndim(in) <= required => Len(out.shape) = required
       /\ out.data = in.data

C4_ExpansionPrepends ==
    ret.op \in {"expand_dims_to_match_scope", "expand_dims_to_many_to_many"} =>
        LET scope == IF ret.op = "expand_dims_to_match_scope" THEN ret.metric.scope
                     ELSE MANY_TO_MANY
            nd == SCOPE_TO_EXPT_SIM_NDIM(ret.flat)[scope]
        IN /\ C4_Expanded(ret.outs[1], ret.pre_e, nd[1])
           /\ C4_Expanded(ret.outs[2], ret.pre_s, nd[2])

\* a rank above the required one comes back as it was, next to one that
\* gained an axis
C4_Witness ==
    /\ ret.op = "expand_dims_to_match_scope" /\ ret.metric.scope = ONE_TO_MANY
    /\ ~ret.metric.flat /\ ret.ndims = <<4, 2>>
    /\ ret.outs[1].shape = ret.pre_e.shape /\ Len(ret.outs[2].shape) = 3

\* the metric functions of the module
CodeFuncs == {ZNCC, NDP}

\* the case of C5: a MANY_TO_MANY metric with promotion around zncc or ndp,
\* called with one 2-D experimental and one 2-D simulated pattern
C5_Case ==
    /\ IsCall /\ ret.metric.metric_func \in CodeFuncs
    /\ ret.metric.scope = MANY_TO_MANY /\ ~ret.metric.flat
    /\ ret.metric.make_compatible_to_lower_scopes
    /\ ret.ndims = <<2, 2>>

\* C5: the promoted call returns a result without singleton axes that is
\* the result of calling a ONE_TO_ONE metric around the same function on
\* the same two patterns
C5_PromotionAgrees ==
    C5_Case =>
        LET one == call(make_similarity_metric(ret.metric.metric_func, TRUE, ONE_TO_ONE, FALSE, FALSE),
                        ret.pre_e, ret.pre_s)
        IN /\ ret.err = "" /\ ret.outs[1].shape = <<>>
           /\ one.err = ""
           /\ one.out.shape = ret.outs[1].shape /\ one.out.data = ret.outs[1].data

\* C6: zncc and ndp return a numpy array iff both inputs are numpy arrays;
\* with a dask input the result is a dask array and nothing was computed
C6_MaterializedIffBothInMemory ==
    ret.op = "metric_func" /\ ret.err = "" =>
        /\ ~ret.outs[1].lazy <=> (~ret.pre_e.lazy /\ ~ret.pre_s.lazy)
        /\ ret.outs[1].lazy => ret.computes = 0
        /\ ~ret.outs[1].lazy => ret.computes = 1

\* ndp of numpy experimental patterns and a dask dictionary stays lazy
C6_Witness ==
    /\ ret.op = "metric_func" /\ ret.metric.metric_func = NDP /\ ret.err = ""
    /\ ~ret.pre_e.lazy /\ ret.pre_s.lazy
    /\ ret.outs[1].lazy /\ ret.computes = 0

\* C7: after a call of a metric the caller's arrays have the shape and the
\* elements they had before it
C7_CallLeavesInputs ==
    IsCall => /\ experimental.shape = ret.pre_e.shape /\ experimental.data = ret.pre_e.data
              /\ simulated.shape = ret.pre_s.shape /\ simulated.data = ret.pre_s.data

\* the registered zncc called on float32 numpy arrays, which the cast
\* copies: the mean subtraction would have changed both
C7_Witness ==
    /\ IsCall /\ ret.key = "zncc" /\ ret.err = ""
    /\ ~ret.pre_e.lazy /\ ~ret.pre_s.lazy /\ ret.pre_e.dtype = "float32"
    /\ zero_mean(ret.pre_e, ret.pre_s, FALSE).expt.data # ret.pre_e.data
    /\ zero_mean(ret.pre_e, ret.pre_s, FALSE).sim.data # ret.pre_s.data
    /\ experimental = ret.pre_e /\ simulated = ret.pre_s

\* C8: zero_mean and normalize called on two arrays leave the elements of
\* both arrays as they were
C8_UtilitiesPure ==
    ret.op \in {"zero_mean", "normalize"} =>
        experimental.data = ret.pre_e.data /\ simulated.data = ret.pre_s.data

\* C9: the registry has exactly the keys zncc and ndp, each a nested
\* MANY_TO_MANY metric of sign +1 with promotion around its own function,
\* and a lookup of any other name fails with a KeyError
C9_Entry(name, func) ==
    /\ SIMILARITY_METRICS[name].metric_func.name = func
    /\ SIMILARITY_METRICS[name].sign = 1
    /\ SIMILARITY_METRICS[name].scope = MANY_TO_MANY
    /\ SIMILARITY_METRICS[name].flat = FALSE
    /\ SIMILARITY_METRICS[name].make_compatible_to_lower_scopes = TRUE

C9_RegistryFixed ==
    /\ DOMAIN SIMILARITY_METRICS = {"zncc", "ndp"}
    /\ C9_Entry("zncc", "_zncc_einsum")
    /\ C9_Entry("ndp", "_ndp_einsum")
    /\ ret.op = "lookup" /\ ret.key \notin {"zncc", "ndp"} => ret.err = "KeyError"
    /\ ret.op = "lookup" /\ ret.key \in {"zncc", "ndp"} =>
          ret.err = "" /\ ret.metric = SIMILARITY_METRICS[ret.key]
    /\ IsCall /\ ret.key \in {"zncc", "ndp"} => ret.metric = SIMILARITY_METRICS[ret.key]

\* the registry after a failed lookup of "foo"
C9_Witness ==
    /\ ret.op = "lookup" /\ ret.key = "foo" /\ ret.err = "KeyError"
    /\ DOMAIN SIMILARITY_METRICS = {"zncc", "ndp"}

\* C10: nested zero_mean and normalize on inputs of one of the four nested
\* scopes: without an axis of size 1 the outputs have the inputs' shapes;
\* with one the outputs have ranks 4 and 3; inputs of ranks 4 and 3 come
\* back with ranks 4 and 3
C10_Case ==
    /\ ret.op \in {"zero_mean", "normalize"} /\ ~ret.flat /\ ret.err = ""
    /\ ret.ndims \in {<<4, 3>>, <<2, 3>>, <<4, 2>>, <<2, 2>>}

C10_SqueezeRoundTrip ==
    C10_Case =>
        LET single == 1 \in Range(ret.pre_e.shape) \cup Range(ret.pre_s.shape)
        IN /\ ~single => /\ ret.outs[1].shape = ret.pre_e.shape
                         /\ ret.outs[2].shape = ret.pre_s.shape
           /\ single => Len(ret.outs[1].shape) = 4 /\ Len(ret.outs[2].shape) = 3
           /\ ret.ndims = <<4, 3>> =>
                 Len(ret.outs[1].shape) = 4 /\ Len(ret.outs[2].shape) = 3

\* normalize of one pattern against a dictionary, no axis of size 1: the
\* promoted arrays are squeezed back to ranks 2 and 3
C10_Witness ==
    /\ C10_Case /\ ret.op = "normalize" /\ ret.ndims = <<2, 3>>
    /\ 1 \notin Range(ret.pre_e.shape) \cup Range(ret.pre_s.shape)
    /\ ret.outs[1].shape = ret.pre_e.shape /\ ret.outs[2].shape = ret.pre_s.shape

\* the case of C11: a flattened metric asked about the nested rank pair of
\* its own declared scope
C11_Case ==
    /\ ret.op = "is_compatible" /\ ret.metric.flat
    /\ ret.ndims = Nested_SCOPE_TO_EXPT_SIM_NDIM[ret.metric.scope]

\* C11: a flattened metric of any of the four scopes reports the nested
\* rank pair of its own scope as compatible
C11_FlatOwnScopeCompatible == C11_Case => ret.flag
====
